---- MODULE Spec2Model ----
(***************************************************************************)
(* Model of the LiquidCrystal_I2C driver (src/src/LiquidCrystal_I2C.cpp):  *)
(* the shadow registers of one driver instance and the bytes each public   *)
(* operation hands to the I2C transport.  One action per public operation; *)
(* every action runs the whole operation, down to expanderWrite.           *)
(***************************************************************************)
EXTENDS Integers, Sequences, FiniteSets

\* ------------------------------------------------------------------------
\* Bounds of the model (inputs of the operations and of the constructor).
\* ------------------------------------------------------------------------
MaxRows == 4      \* lcd_rows given to the constructor ranges over 1..MaxRows
MaxRowArg == 5    \* row argument of setCursor ranges over 0..MaxRowArg
MaxVal == 2       \* byte arguments are the samples (k * 201) % 256, k in 0..MaxVal
MaxCharmap == 1   \* charmap arguments are indexed by 0..MaxCharmap

\* ------------------------------------------------------------------------
\* namespace LCD (LiquidCrystal_I2C.h)
\* ------------------------------------------------------------------------
Function_Bit8     == 16
Function_Bit4     == 0
Function_Lines1   == 0
Function_Lines2   == 8
Function_Font5x8  == 0
Function_Font5x10 == 4

Control_On        == 4
Control_Off       == 0
Control_CursorOff == 0
Control_CursorOn  == 2
Control_BlinkOff  == 0
Control_BlinkOn   == 1

Mode_Left         == 2
Mode_Right        == 0
Mode_ShiftIncr    == 1
Mode_ShiftDecr    == 0

Shift_DisplayMove == 8
Shift_CursorMove  == 0
Shift_MoveRight   == 4
Shift_MoveLeft    == 0

Backlight_On      == 8
Backlight_Off     == 0

Pin_En            == 4
Pin_Rw            == 2
Pin_Rs            == 1

Command_ClearDisplay   == 1
Command_ReturnHome     == 2
Command_EntryModeSet   == 4
Command_DisplayControl == 8
Command_CursorShift    == 16
Command_FunctionSet    == 32
Command_SetCGRAMAddr   == 64
Command_SetDDRAMAddr   == 128

\* ------------------------------------------------------------------------
\* C integer operators on non-negative values.
\* ------------------------------------------------------------------------
\* a & b and a | b, bit by bit.
RECURSIVE AndBits(_, _)
AndBits(a, b) ==
    IF a = 0 \/ b = 0 THEN 0
    ELSE (a % 2) * (b % 2) + 2 * AndBits(a \div 2, b \div 2)

RECURSIVE OrBits(_, _)
OrBits(a, b) ==
    IF a = 0 THEN b
    ELSE IF b = 0 THEN a
    ELSE (IF a % 2 = 1 \/ b % 2 = 1 THEN 1 ELSE 0) + 2 * OrBits(a \div 2, b \div 2)

\* The same on bytes, tabulated once.
AndTable == [a \in 0..255 |-> [b \in 0..255 |-> AndBits(a, b)]]
OrTable == [a \in 0..255 |-> [b \in 0..255 |-> OrBits(a, b)]]

BitAnd(a, b) == IF a < 256 /\ b < 256 THEN AndTable[a][b] ELSE AndBits(a, b)

BitOr(a, b) == IF a < 256 /\ b < 256 THEN OrTable[a][b] ELSE OrBits(a, b)

\* x & ~m for an 8-bit x: ~m is an int with every bit above bit 7 set.
AndNot(x, m) == BitAnd(x, 255 - m)

\* conversion of an int to uint8_t
U8(x) == x % 256

\* ------------------------------------------------------------------------
\* State: the fields of the instance, the bytes written to the transport by
\* the most recent operation, and a record of that operation.
\* ------------------------------------------------------------------------
VARIABLES
    _rows,             \* uint8_t _rows      (fixed by the constructor)
    _charsize,         \* uint8_t _charsize  (fixed by the constructor)
    _displayfunction,  \* shadow of the function register
    _displaycontrol,   \* shadow of the control register
    _displaymode,      \* shadow of the entry-mode register
    _backlightval,     \* shadow of the backlight bit
    wire,              \* bytes given to _Wire.write by the most recent operation
    call,              \* the most recent operation: [op, a, b, cm]
    ret,               \* what it returned: <<>> for void, <<v>> otherwise
    rowidx,            \* index setCursor used to read row_offsets (-1: none)
    pre,               \* the shadow registers before the most recent operation
    blChoice,          \* TRUE unless the most recent of backlight()/noBacklight() was noBacklight()
    dispChoice,        \* the most recent of display()/noDisplay(); "begin" after begin(); "none" before any
    hwPhase,           \* nibbles latched by the controller so far, mod 2
    probe,             \* TRUE when the commands the controller is given are followed (below)
    hwControl,         \* the last Display-Control command given to the controller (0: none)
    hwMode,            \* the last Entry-Mode-Set command given to the controller (0: none)
    since,             \* "new"; "begun" from begin() on; "raw" once command() was called after it
    rLocking,          \* two callers: TRUE when they exclude each other for a whole operation
    rJob,              \* two callers: the operation each of them calls
    rPc,               \* two callers: how many expander writes of its operation each has made
    rOrder,            \* two callers: the callers in the order their operations started
    bus                \* two callers: every byte written to the expander, in order

vars == <<_rows, _charsize, _displayfunction, _displaycontrol, _displaymode,
          _backlightval, wire, call, ret, rowidx, pre, blChoice, dispChoice,
          hwPhase, probe, hwControl, hwMode, since,
          rLocking, rJob, rPc, rOrder, bus>>

\* The mutable part of the instance, with the transport's log, as one value:
\* the operations below are functions from such a value to the next.
Self == [fn |-> _displayfunction, ctl |-> _displaycontrol, mode |-> _displaymode,
         bl |-> _backlightval, rows |-> _rows, charsize |-> _charsize,
         wire |-> <<>>, ret |-> <<>>, rowidx |-> -1]

Regs(s) == [fn |-> s.fn, ctl |-> s.ctl, mode |-> s.mode, bl |-> s.bl]

\* ------------------------------------------------------------------------
\* low level data pushing commands
\* ------------------------------------------------------------------------
\* (variant) the byte goes out without the backlight bit
expanderWrite_dropsBacklight(s, _data) ==
    [s EXCEPT !.wire = Append(@, U8(_data))]

expanderWrite(s, _data) ==
    [s EXCEPT !.wire = Append(@, U8(BitOr(_data, s.bl)))]

\* (variant) En is raised and never lowered
pulseEnable_noFall(s, _data) == expanderWrite(s, BitOr(_data, Pin_En))

pulseEnable(s, _data) ==
    LET hi == expanderWrite(s, BitOr(_data, Pin_En))      \* En high
    IN  expanderWrite(hi, AndNot(_data, Pin_En))           \* En low

\* (variant) the nibble is not presented before En rises
write4bits_pulseOnly(s, value) == pulseEnable(s, value)

write4bits(s, value) ==
    LET w == expanderWrite(s, value)
    IN  pulseEnable(w, value)

\* (variant) the low nibble goes out first
send_steps_lowFirst(s, value, mode) ==
    LET highnib == BitAnd(value, 240)
        lownib  == BitAnd(U8(value * 16), 240)
        l == write4bits(s, BitOr(lownib, mode))
    IN  write4bits(l, BitOr(highnib, mode))

\* (variant) only the high nibble goes out
send_steps_highOnly(s, value, mode) ==
    LET highnib == BitAnd(value, 240)
    IN  write4bits(s, BitOr(highnib, mode))

\* write either command or data: the body of send().
send_steps(s, value, mode) ==
    LET highnib == BitAnd(value, 240)
        lownib  == BitAnd(U8(value * 16), 240)
        h == write4bits(s, BitOr(highnib, mode))
    IN  write4bits(h, BitOr(lownib, mode))

\* send() reads nothing of the instance but _backlightval and changes nothing
\* but the transport's log, to which it appends: its bytes are tabulated once
\* per (value, mode, _backlightval) by running send_steps on an empty log.
send_table ==
    [value \in 0..255 |-> [mode \in {0, Pin_Rs} |->
        [bl \in {Backlight_Off, Backlight_On} |->
            send_steps([wire |-> <<>>, bl |-> bl], value, mode).wire]]]

send(s, value, mode) ==
    [s EXCEPT !.wire = @ \o send_table[value][mode][s.bl]]

\* mid level commands
\* (variant) a command goes out with Rs high
command_asData(s, value) == send(s, value, Pin_Rs)

command(s, value) == send(s, value, 0)

write(s, value) ==
    LET t == send(s, value, Pin_Rs)
    IN  [t EXCEPT !.ret = <<1>>]

\* ------------------------------------------------------------------------
\* high level commands, for the user
\* ------------------------------------------------------------------------
clear(s) == command(s, Command_ClearDisplay)

home(s) == command(s, Command_ReturnHome)

\* (variant) rows laid out as on a 16x4 module
row_offsets_16x4 == <<0, 64, 16, 80>>

row_offsets == <<0, 64, 20, 84>>     \* { 0x00, 0x40, 0x14, 0x54 }, indexed from 1 here

\* (variant) the clamp also catches row == rows
setCursor_row_clampsAtRows(s, row) == IF row >= s.rows THEN U8(s.rows - 1) ELSE row

\* The row setCursor uses as index, after its clamp.
setCursor_row(s, row) == IF row > s.rows THEN U8(s.rows - 1) ELSE row

\* oob is what a read past the end of row_offsets yields (undefined behaviour:
\* whatever int lies there).
setCursor(s, col, row, oob) ==
    LET r   == setCursor_row(s, row)
        off == IF r < Len(row_offsets) THEN row_offsets[r + 1] ELSE oob
        t   == [s EXCEPT !.rowidx = r]
    IN  command(t, U8(BitOr(Command_SetDDRAMAddr, col + off)))

noDisplay(s) ==
    LET t == [s EXCEPT !.ctl = AndNot(@, Control_On)]
    IN  command(t, BitOr(Command_DisplayControl, t.ctl))

\* (variant) the register is assigned, not OR-ed
display_assignsOn(s) ==
    LET t == [s EXCEPT !.ctl = Control_On]
    IN  command(t, BitOr(Command_DisplayControl, t.ctl))

display(s) ==
    LET t == [s EXCEPT !.ctl = BitOr(@, Control_On)]
    IN  command(t, BitOr(Command_DisplayControl, t.ctl))

noCursor(s) ==
    LET t == [s EXCEPT !.ctl = AndNot(@, Control_CursorOn)]
    IN  command(t, BitOr(Command_DisplayControl, t.ctl))

\* (variant) only the changed flag is transmitted, not the whole register
cursor_sendsOnlyItsBit(s) ==
    LET t == [s EXCEPT !.ctl = BitOr(@, Control_CursorOn)]
    IN  command(t, BitOr(Command_DisplayControl, Control_CursorOn))

cursor(s) ==
    LET t == [s EXCEPT !.ctl = BitOr(@, Control_CursorOn)]
    IN  command(t, BitOr(Command_DisplayControl, t.ctl))

\* (variant) the mask also takes the cursor bit
noBlink_clearsCursorToo(s) ==
    LET t == [s EXCEPT !.ctl = AndNot(@, BitOr(Control_BlinkOn, Control_CursorOn))]
    IN  command(t, BitOr(Command_DisplayControl, t.ctl))

noBlink(s) ==
    LET t == [s EXCEPT !.ctl = AndNot(@, Control_BlinkOn)]
    IN  command(t, BitOr(Command_DisplayControl, t.ctl))

blink(s) ==
    LET t == [s EXCEPT !.ctl = BitOr(@, Control_BlinkOn)]
    IN  command(t, BitOr(Command_DisplayControl, t.ctl))

scrollDisplayLeft(s) ==
    command(s, BitOr(BitOr(Shift_CursorMove, Shift_DisplayMove), Shift_MoveLeft))

scrollDisplayRight(s) ==
    command(s, BitOr(BitOr(Shift_CursorMove, Shift_DisplayMove), Shift_MoveRight))

leftToRight(s) ==
    LET t == [s EXCEPT !.mode = BitOr(@, Mode_Left)]
    IN  command(t, BitOr(Command_EntryModeSet, t.mode))

rightToLeft(s) ==
    LET t == [s EXCEPT !.mode = AndNot(@, Mode_Left)]
    IN  command(t, BitOr(Command_EntryModeSet, t.mode))

autoscroll(s) ==
    LET t == [s EXCEPT !.mode = BitOr(@, Mode_ShiftIncr)]
    IN  command(t, BitOr(Command_EntryModeSet, t.mode))

noAutoscroll(s) ==
    LET t == [s EXCEPT !.mode = AndNot(@, Mode_ShiftIncr)]
    IN  command(t, BitOr(Command_EntryModeSet, t.mode))

\* (variant) the loop stops one byte early
RECURSIVE createChar_loop_stopsAt7(_, _, _)
createChar_loop_stopsAt7(s, charmap, i) ==
    IF i < 7 THEN createChar_loop_stopsAt7(write(s, charmap[i + 1]), charmap, i + 1) ELSE s

\* for (int i=0; i<8; i++) write(charmap[i]);   (charmap is indexed from 1 here)
RECURSIVE createChar_loop(_, _, _)
createChar_loop(s, charmap, i) ==
    IF i < 8 THEN createChar_loop(write(s, charmap[i + 1]), charmap, i + 1) ELSE s

createChar(s, location, charmap) ==
    LET loc == BitAnd(location, 7)
        c   == command(s, BitOr(Command_SetCGRAMAddr, U8(loc * 8)))
        w   == createChar_loop(c, charmap, 0)
    IN  [w EXCEPT !.ret = <<>>]

\* (variant) the expander is written before the shadow bit is assigned
noBacklight_writesFirst(s) ==
    LET t == expanderWrite(s, 0)
    IN  [t EXCEPT !.bl = Backlight_Off]

noBacklight(s) ==
    LET t == [s EXCEPT !.bl = Backlight_Off]
    IN  expanderWrite(t, 0)

backlight(s) ==
    LET t == [s EXCEPT !.bl = Backlight_On]
    IN  expanderWrite(t, 0)

getBacklight(s) == [s EXCEPT !.ret = <<s.bl = Backlight_On>>]

\* (variant) the tall font is selected whatever the number of rows
begin_displayfunction_fontAnyRows(s) ==
    LET s1 == IF s.rows > 1
              THEN [s EXCEPT !.fn = BitOr(@, Function_Lines2)] ELSE s
    IN  IF s1.charsize # 0
        THEN [s1 EXCEPT !.fn = BitOr(@, Function_Font5x10)] ELSE s1

\* the first two statements of begin(): the function register from the geometry
begin_displayfunction(s) ==
    LET s1 == IF s.rows > 1
              THEN [s EXCEPT !.fn = BitOr(@, Function_Lines2)] ELSE s
    IN  IF s1.charsize # 0 /\ s1.rows = 1
        THEN [s1 EXCEPT !.fn = BitOr(@, Function_Font5x10)] ELSE s1

\* (variant) begin() with clear() and display() in the other order
begin_clearsFirst(s) ==
    LET s2 == begin_displayfunction(s)
        s3 == expanderWrite(s2, s2.bl)
        s4 == write4bits(s3, U8(3 * 16))
        s5 == write4bits(s4, U8(3 * 16))
        s6 == write4bits(s5, U8(3 * 16))
        s7 == write4bits(s6, U8(2 * 16))
        s8 == command(s7, BitOr(Command_FunctionSet, s7.fn))
        s9 == clear(s8)
        s10 == display(s9)
        s11 == command(s10, BitOr(Command_EntryModeSet, s10.mode))
    IN  home(s11)

begin(s) ==
    LET s2 == begin_displayfunction(s)
        s3 == expanderWrite(s2, s2.bl)
        s4 == write4bits(s3, U8(3 * 16))
        s5 == write4bits(s4, U8(3 * 16))
        s6 == write4bits(s5, U8(3 * 16))
        s7 == write4bits(s6, U8(2 * 16))
        s8 == command(s7, BitOr(Command_FunctionSet, s7.fn))
        s9 == display(s8)
        s10 == clear(s9)
        s11 == command(s10, BitOr(Command_EntryModeSet, s10.mode))
    IN  home(s11)

\* init() is _Wire.begin() followed by begin()
init(s) == begin(s)

\* ------------------------------------------------------------------------
\* Arguments the operations are called with.
\* ------------------------------------------------------------------------
ByteArgs == { U8(k * 201) : k \in 0..MaxVal }           \* 0x00, 0xC9, 0x92, 0x5B, ...
RowArgs == 0..MaxRowArg
Charmaps == { [i \in 1..8 |-> U8((i + k) * 37)] : k \in 0..MaxCharmap }
OOBInts == {0, 39, 65535}     \* sample contents of the memory after row_offsets


\* ------------------------------------------------------------------------
\* What the HD44780 sees of a transport log: the expander byte present at
\* each enable pulse is one nibble transmission; two of them make one
\* protocol transmission (a command when Rs is clear, data when it is set).
\* ------------------------------------------------------------------------
HasBit(x, m) == (x \div m) % 2 = 1

SetBit(x, m) == IF HasBit(x, m) THEN x ELSE x + m

ClearBit(x, m) == IF HasBit(x, m) THEN x - m ELSE x

EnHigh(byte) == HasBit(byte, 4)

\* the bytes written with En high, in order
Pulses(w) == SelectSeq(w, EnHigh)

\* the nibble-and-mode bytes given to write4bits: the pulses without En and backlight
Nibbles(w) == LET p == Pulses(w) IN [k \in 1..Len(p) |-> ClearBit(ClearBit(p[k], 4), 8)]

\* nibble transmissions taken two by two; rs is 1 or 0 when both nibbles agree
\* on Rs, and -1 otherwise
PairUp(n) ==
    [k \in 1..(Len(n) \div 2) |->
        LET h == n[2 * k - 1]
            l == n[2 * k]
        IN  [value |-> (h - (h % 16)) + (l \div 16),
             rs |-> IF h % 16 = l % 16 /\ h % 16 \in {0, 1} THEN h % 16 ELSE -1]]

Frames(w) == PairUp(Nibbles(w))

\* the two-nibble transmissions of begin(), which follow its four single nibbles
BeginFrames == LET n == Nibbles(wire) IN PairUp(SubSeq(n, 5, Len(n)))

Cmd(v) == [value |-> v, rs |-> 0]

Data(v) == [value |-> v, rs |-> 1]

\* the operation transmitted exactly the protocol transmissions fs and nothing else
Transmits(fs) == Frames(wire) = fs /\ Len(wire) = 6 * Len(fs)

Now == [fn |-> _displayfunction, ctl |-> _displaycontrol, mode |-> _displaymode,
        bl |-> _backlightval]

\* ------------------------------------------------------------------------
\* The controller's side of the bus, kept as history variables: how many
\* nibbles it has latched (mod 2), the last Display-Control command (0x08..0x0F)
\* and the last Entry-Mode-Set command (0x04..0x07) it was given.
\* ------------------------------------------------------------------------
\* the commands and data an operation transmitted two nibbles at a time; those
\* of begin() follow its four single nibbles
OpFrames(op, w) ==
    LET n == Nibbles(w)
    IN  IF op \in {"begin", "init"} THEN PairUp(SubSeq(n, 5, Len(n))) ELSE PairUp(n)

\* the last command of fs with its byte in range, or last if there is none
LastCommandIn(fs, range, last) ==
    LET hits == {k \in 1..Len(fs) : fs[k].rs = 0 /\ fs[k].value \in range}
    IN  IF hits = {} THEN last
        ELSE fs[CHOOSE k \in hits : \A j \in hits : j <= k].value

\* "begun" from begin() on, "raw" once command() was called after it
SinceAfter(op) ==
    IF op \in {"begin", "init"} THEN "begun"
    ELSE IF op = "command" /\ since = "begun" THEN "raw"
    ELSE since

\* The instance as the constructor leaves it, nothing written yet.
Constructed ==
    /\ _rows \in 1..MaxRows
    /\ _charsize \in {Function_Font5x8, Function_Font5x10}
    /\ _displayfunction = BitOr(BitOr(Function_Bit4, Function_Lines1), Function_Font5x8)
    /\ _displaycontrol = BitOr(BitOr(Control_On, Control_CursorOff), Control_BlinkOff)
    /\ _displaymode = BitOr(Mode_Left, Mode_ShiftDecr)
    /\ _backlightval = Backlight_On
    /\ wire = <<>>
    /\ call = [op |-> "new", a |-> 0, b |-> 0, cm |-> <<>>]
    /\ ret = <<>>
    /\ rowidx = -1
    /\ pre = [fn |-> 0, ctl |-> Control_On, mode |-> Mode_Left, bl |-> Backlight_On]
    /\ blChoice = TRUE
    /\ dispChoice = "none"
    /\ hwPhase = 0
    /\ hwControl = 0
    /\ hwMode = 0
    /\ since = "new"

\* one caller only
OneCaller ==
    /\ rLocking = FALSE
    /\ rJob = <<>>
    /\ rPc = <<>>
    /\ rOrder = <<>>
    /\ bus = <<>>

Init ==
    /\ Constructed
    /\ probe = FALSE
    /\ OneCaller

\* The same with the controller's commands followed, for a 16x2 display.
InitHw ==
    /\ Constructed
    /\ _rows = 2 /\ _charsize = Function_Font5x8
    /\ probe = TRUE
    /\ OneCaller

\* ------------------------------------------------------------------------
\* One action per public operation.  Done(op, a, b, cm, t) records the call
\* and installs the instance and transport log t the operation ends with.
\* ------------------------------------------------------------------------
Done(op, a, b, cm, t0) == \E t \in {t0} :
    /\ _displayfunction' = t.fn
    /\ _displaycontrol' = t.ctl
    /\ _displaymode' = t.mode
    /\ _backlightval' = t.bl
    /\ wire' = t.wire
    /\ ret' = t.ret
    /\ rowidx' = t.rowidx
    /\ call' = [op |-> op, a |-> a, b |-> b, cm |-> cm]
    /\ pre' = Regs(Self)
    /\ hwPhase' = (hwPhase + Len(Pulses(t.wire))) % 2
    /\ IF probe
       THEN /\ hwControl' = LastCommandIn(OpFrames(op, t.wire), 8..15, hwControl)
            /\ hwMode' = LastCommandIn(OpFrames(op, t.wire), 4..7, hwMode)
            /\ since' = SinceAfter(op)
       ELSE UNCHANGED <<hwControl, hwMode, since>>
    /\ UNCHANGED <<_rows, _charsize, probe, rLocking, rJob, rPc, rOrder, bus>>

Call_init ==
    /\ Done("init", 0, 0, <<>>, init(Self))
    /\ dispChoice' = "begin" /\ UNCHANGED blChoice

Call_begin ==
    /\ Done("begin", 0, 0, <<>>, begin(Self))
    /\ dispChoice' = "begin" /\ UNCHANGED blChoice

Call_clear ==
    /\ Done("clear", 0, 0, <<>>, clear(Self))
    /\ UNCHANGED <<blChoice, dispChoice>>

Call_home ==
    /\ Done("home", 0, 0, <<>>, home(Self))
    /\ UNCHANGED <<blChoice, dispChoice>>

Call_setCursor ==
    \E col \in ByteArgs, row \in RowArgs :
      \E oob \in (IF setCursor_row(Self, row) < Len(row_offsets) THEN {0} ELSE OOBInts) :
        /\ Done("setCursor", col, row, <<>>, setCursor(Self, col, row, oob))
        /\ UNCHANGED <<blChoice, dispChoice>>

Call_noDisplay ==
    /\ Done("noDisplay", 0, 0, <<>>, noDisplay(Self))
    /\ dispChoice' = "noDisplay" /\ UNCHANGED blChoice

Call_display ==
    /\ Done("display", 0, 0, <<>>, display(Self))
    /\ dispChoice' = "display" /\ UNCHANGED blChoice

Call_noCursor ==
    /\ Done("noCursor", 0, 0, <<>>, noCursor(Self))
    /\ UNCHANGED <<blChoice, dispChoice>>

Call_cursor ==
    /\ Done("cursor", 0, 0, <<>>, cursor(Self))
    /\ UNCHANGED <<blChoice, dispChoice>>

Call_noBlink ==
    /\ Done("noBlink", 0, 0, <<>>, noBlink(Self))
    /\ UNCHANGED <<blChoice, dispChoice>>

Call_blink ==
    /\ Done("blink", 0, 0, <<>>, blink(Self))
    /\ UNCHANGED <<blChoice, dispChoice>>

Call_scrollDisplayLeft ==
    /\ Done("scrollDisplayLeft", 0, 0, <<>>, scrollDisplayLeft(Self))
    /\ UNCHANGED <<blChoice, dispChoice>>

Call_scrollDisplayRight ==
    /\ Done("scrollDisplayRight", 0, 0, <<>>, scrollDisplayRight(Self))
    /\ UNCHANGED <<blChoice, dispChoice>>

Call_leftToRight ==
    /\ Done("leftToRight", 0, 0, <<>>, leftToRight(Self))
    /\ UNCHANGED <<blChoice, dispChoice>>

Call_rightToLeft ==
    /\ Done("rightToLeft", 0, 0, <<>>, rightToLeft(Self))
    /\ UNCHANGED <<blChoice, dispChoice>>

Call_autoscroll ==
    /\ Done("autoscroll", 0, 0, <<>>, autoscroll(Self))
    /\ UNCHANGED <<blChoice, dispChoice>>

Call_noAutoscroll ==
    /\ Done("noAutoscroll", 0, 0, <<>>, noAutoscroll(Self))
    /\ UNCHANGED <<blChoice, dispChoice>>

Call_createChar ==
    \E location \in ByteArgs, charmap \in Charmaps :
        /\ Done("createChar", location, 0, charmap, createChar(Self, location, charmap))
        /\ UNCHANGED <<blChoice, dispChoice>>

Call_noBacklight ==
    /\ Done("noBacklight", 0, 0, <<>>, noBacklight(Self))
    /\ blChoice' = FALSE /\ UNCHANGED dispChoice

Call_backlight ==
    /\ Done("backlight", 0, 0, <<>>, backlight(Self))
    /\ blChoice' = TRUE /\ UNCHANGED dispChoice

Call_getBacklight ==
    /\ Done("getBacklight", 0, 0, <<>>, getBacklight(Self))
    /\ UNCHANGED <<blChoice, dispChoice>>

Call_write ==
    \E value \in ByteArgs :
        /\ Done("write", value, 0, <<>>, write(Self, value))
        /\ UNCHANGED <<blChoice, dispChoice>>

Call_command ==
    \E value \in ByteArgs :
        /\ Done("command", value, 0, <<>>, command(Self, value))
        /\ UNCHANGED <<blChoice, dispChoice>>

Next ==
    \/ Call_init
    \/ Call_begin
    \/ Call_clear
    \/ Call_home
    \/ Call_setCursor
    \/ Call_noDisplay
    \/ Call_display
    \/ Call_noCursor
    \/ Call_cursor
    \/ Call_noBlink
    \/ Call_blink
    \/ Call_scrollDisplayLeft
    \/ Call_scrollDisplayRight
    \/ Call_leftToRight
    \/ Call_rightToLeft
    \/ Call_autoscroll
    \/ Call_noAutoscroll
    \/ Call_createChar
    \/ Call_noBacklight
    \/ Call_backlight
    \/ Call_getBacklight
    \/ Call_write
    \/ Call_command

Spec == Init /\ [][Next]_vars

SpecHw == InitHw /\ [][Next]_vars

\* ------------------------------------------------------------------------
\* Two callers on one instance. The class holds no lock: a caller's operation
\* is its expander writes one after the other, and between any two of them the
\* other caller may make one of its own, unless the callers exclude each other.
\* The operations called leave every register alone, so the bytes an operation
\* writes are the same wherever the other caller's writes fall.
\* ------------------------------------------------------------------------
Threads == {1, 2}

Jobs ==
    {[op |-> o, a |-> v] : o \in {"write", "command"}, v \in ByteArgs}
        \cup {[op |-> o, a |-> 0] : o \in {"clear", "home"}}

RunJob(j, s) ==
    CASE j.op = "write" -> write(s, j.a)
      [] j.op = "command" -> command(s, j.a)
      [] j.op = "clear" -> clear(s)
      [] j.op = "home" -> home(s)

\* the expander writes of an operation, in order
Program(j) == RunJob(j, [Self EXCEPT !.wire = <<>>]).wire

Other(t) == CHOOSE u \in Threads : u # t

\* caller t is inside its operation
Inside(t) == 0 < rPc[t] /\ rPc[t] < Len(Program(rJob[t]))

InitRace ==
    /\ Constructed
    /\ _rows = 2 /\ _charsize = Function_Font5x8
    /\ probe = FALSE
    /\ rLocking \in BOOLEAN
    /\ rJob \in [Threads -> Jobs]
    /\ rPc = [t \in Threads |-> 0]
    /\ rOrder = <<>>
    /\ bus = <<>>

\* caller t makes the next expander write of its operation
RaceWrite(t) ==
    /\ rPc[t] < Len(Program(rJob[t]))
    /\ rLocking => ~Inside(Other(t))
    /\ bus' = Append(bus, Program(rJob[t])[rPc[t] + 1])
    /\ rPc' = [rPc EXCEPT ![t] = @ + 1]
    /\ rOrder' = IF rPc[t] = 0 THEN Append(rOrder, t) ELSE rOrder
    /\ UNCHANGED <<_rows, _charsize, _displayfunction, _displaycontrol, _displaymode,
                   _backlightval, wire, call, ret, rowidx, pre, blChoice, dispChoice,
                   hwPhase, probe, hwControl, hwMode, since, rLocking, rJob>>

NextRace == \E t \in Threads : RaceWrite(t)

SpecRace == InitRace /\ [][NextRace]_vars

\* ------------------------------------------------------------------------
\* C1: every byte the most recent operation handed to the transport has its
\* backlight bit (0x08) set exactly when the most recent of backlight() and
\* noBacklight() was backlight(), or neither was ever called.
\* ------------------------------------------------------------------------
C1_BacklightBitOnEveryByte ==
    \A i \in 1..Len(wire) : HasBit(wire[i], 8) = blChoice

\* clear() after noBacklight() wrote its six bytes
C1_Witness ==
    /\ call.op = "clear"
    /\ ~blChoice
    /\ Len(wire) = 6

\* ------------------------------------------------------------------------
\* C2: each flag-mutating call changes its one bit of the shadow register and
\* transmits exactly one command, 0x08 | control register (display, cursor,
\* blink calls) or 0x04 | entry-mode register (direction, autoscroll calls),
\* with the register as it is after the mutation.
\* ------------------------------------------------------------------------
C2_ControlAfter ==
    CASE call.op = "display"   -> SetBit(pre.ctl, 4)
      [] call.op = "noDisplay" -> ClearBit(pre.ctl, 4)
      [] call.op = "cursor"    -> SetBit(pre.ctl, 2)
      [] call.op = "noCursor"  -> ClearBit(pre.ctl, 2)
      [] call.op = "blink"     -> SetBit(pre.ctl, 1)
      [] call.op = "noBlink"   -> ClearBit(pre.ctl, 1)

C2_ModeAfter ==
    CASE call.op = "leftToRight"  -> SetBit(pre.mode, 2)
      [] call.op = "rightToLeft"  -> ClearBit(pre.mode, 2)
      [] call.op = "autoscroll"   -> SetBit(pre.mode, 1)
      [] call.op = "noAutoscroll" -> ClearBit(pre.mode, 1)

C2_FlagCallSendsFullRegister ==
    /\ call.op \in {"display", "noDisplay", "cursor", "noCursor", "blink", "noBlink"} =>
          /\ _displaycontrol = C2_ControlAfter
          /\ Transmits(<<Cmd(8 + _displaycontrol)>>)
    /\ call.op \in {"leftToRight", "rightToLeft", "autoscroll", "noAutoscroll"} =>
          /\ _displaymode = C2_ModeAfter
          /\ Transmits(<<Cmd(4 + _displaymode)>>)

\* cursor() with display off and blink on, then autoscroll-off with direction right-to-left
C2_Witness ==
    \/ /\ call.op = "cursor"
       /\ pre.ctl = 1
       /\ Transmits(<<Cmd(11)>>)
    \/ /\ call.op = "noAutoscroll"
       /\ pre.mode = 1
       /\ Transmits(<<Cmd(4)>>)

\* ------------------------------------------------------------------------
\* C3: scrollDisplayLeft() transmits exactly the Cursor-Shift command 0x18
\* and scrollDisplayRight() exactly 0x1C.
\* ------------------------------------------------------------------------
C3_ScrollSendsCursorShift ==
    /\ call.op = "scrollDisplayLeft" => Transmits(<<Cmd(24)>>)
    /\ call.op = "scrollDisplayRight" => Transmits(<<Cmd(28)>>)

\* ------------------------------------------------------------------------
\* C4 (as stated): for a row in 0..rows-1, rows in 1..4, setCursor(col, row)
\* transmits exactly one command with byte 0x80 | (col + offset[row]), offsets
\* {0x00, 0x40, 0x14, 0x54}, and changes no shadow register.
\* ------------------------------------------------------------------------
C4_Offsets == <<0, 64, 20, 84>>

C4_ValidRow == call.op = "setCursor" /\ _rows \in 1..4 /\ call.b \in 0..(_rows - 1)

C4_SetCursorAddress_AsStated ==
    C4_ValidRow =>
        /\ Transmits(<<Cmd(SetBit(call.a + C4_Offsets[call.b + 1], 128))>>)
        /\ Now = pre

\* C4 (amended): the command byte is the low 8 bits of 0x80 | (col + offset[row]):
\* the sum is computed as an int and converted to uint8_t.
C4_SetCursorAddress_Low8Bits ==
    C4_ValidRow =>
        /\ Transmits(<<Cmd(SetBit(call.a + C4_Offsets[call.b + 1], 128) % 256)>>)
        /\ Now = pre

\* setCursor(0xC9, 1) on a two-row display: 0xC9 + 0x40 does not fit a byte
C4_Witness ==
    /\ C4_ValidRow
    /\ _rows = 2 /\ call.a = 201 /\ call.b = 1
    /\ Transmits(<<Cmd(137)>>)

\* ------------------------------------------------------------------------
\* C5: setCursor replaces the row by rows-1 exactly when row > rows, and then
\* addresses offset[rows-1]; row == rows is not clamped and indexes the table
\* as it is.
\* ------------------------------------------------------------------------
C5_ClampOnlyAboveRows ==
    call.op = "setCursor" =>
        /\ rowidx = IF call.b > _rows THEN _rows - 1 ELSE call.b
        /\ (call.b > _rows /\ _rows <= 4) =>
              Transmits(<<Cmd(SetBit(call.a + C4_Offsets[_rows], 128) % 256)>>)
        /\ (call.b = _rows /\ _rows < 4) =>
              Transmits(<<Cmd(SetBit(call.a + C4_Offsets[call.b + 1], 128) % 256)>>)

\* setCursor(0, 2) on a two-row display addresses row 2 (0x14)
C5_Witness ==
    /\ call.op = "setCursor"
    /\ _rows = 2 /\ call.a = 0 /\ call.b = 2
    /\ rowidx = 2
    /\ Transmits(<<Cmd(148)>>)

\* ------------------------------------------------------------------------
\* C6: createChar(location, pattern) transmits exactly the command
\* 0x40 | ((location & 7) << 3) followed by the eight pattern bytes as data,
\* in order.
\* ------------------------------------------------------------------------
C6_CreateCharNineTransmissions ==
    call.op = "createChar" =>
        Transmits(<<Cmd(64 + (call.a % 8) * 8)>> \o [i \in 1..8 |-> Data(call.cm[i])])

\* createChar(0x92, ...): location 2 after the mask
C6_Witness ==
    /\ call.op = "createChar"
    /\ call.a = 146
    /\ Len(Frames(wire)) = 9
    /\ Frames(wire)[1] = Cmd(80)
    /\ Frames(wire)[9] = Data(call.cm[8])

\* ------------------------------------------------------------------------
\* C7: after begin(), whatever came before, the control register is 0x04 and
\* the entry-mode register 0x02, and begin() transmitted Display-Control 0x0C
\* and Entry-Mode-Set 0x06.
\* ------------------------------------------------------------------------
C7_BeginRestoresDefaults ==
    call.op = "begin" =>
        /\ _displaycontrol = 4
        /\ _displaymode = 2
        /\ BeginFrames[2] = Cmd(12)
        /\ BeginFrames[4] = Cmd(6)

\* ------------------------------------------------------------------------
\* C8: the Function-Set command of begin() is 0x20 | (0x08 if rows > 1) |
\* (0x04 if rows == 1 and charsize != 0), never with 0x10; 0x28 for two rows
\* and the default font; the same on every begin() of the instance.
\* ------------------------------------------------------------------------
C8_FunctionSetByte ==
    call.op \in {"begin", "init"} =>
        /\ BeginFrames[1] =
              Cmd(32 + (IF _rows > 1 THEN 8 ELSE 0)
                     + (IF _rows = 1 /\ _charsize # 0 THEN 4 ELSE 0))
        /\ ~HasBit(BeginFrames[1].value, 16)
        /\ (_rows = 2 /\ _charsize = 0) => BeginFrames[1] = Cmd(40)

\* a begin() on an instance that had begun before: 16x2, default font
C8_Witness ==
    /\ call.op = "begin"
    /\ _rows = 2 /\ _charsize = 0
    /\ pre.fn = 8
    /\ BeginFrames[1] = Cmd(40)

\* ------------------------------------------------------------------------
\* C9: write(v) makes exactly the two nibble transmissions (v & 0xF0) | Rs and
\* ((v << 4) & 0xF0) | Rs, in this order, returns 1 and changes no shadow
\* register; command(v) makes the same two with Rs clear.
\* ------------------------------------------------------------------------
C9_HighNibble == call.a - (call.a % 16)

C9_LowNibble == (call.a % 16) * 16

C9_TwoNibblesHighFirst ==
    /\ call.op = "write" =>
          /\ Nibbles(wire) = <<C9_HighNibble + 1, C9_LowNibble + 1>>
          /\ Len(wire) = 6
          /\ ret = <<1>>
          /\ Now = pre
    /\ call.op = "command" =>
          /\ Nibbles(wire) = <<C9_HighNibble, C9_LowNibble>>
          /\ Len(wire) = 6

\* write(0xC9): 0xC1 then 0x91
C9_Witness ==
    /\ call.op = "write"
    /\ call.a = 201
    /\ Nibbles(wire) = <<193, 145>>

\* ------------------------------------------------------------------------
\* C10: the display bit (0x04) of the control register is set iff the most
\* recent of display()/noDisplay() was display(); these two calls leave the
\* cursor and blink bits as they were; and a call repeated on its own result
\* changes nothing.
\* ------------------------------------------------------------------------
C10_DisplayBitFollowsLastCall ==
    /\ dispChoice = "display" => HasBit(_displaycontrol, 4)
    /\ dispChoice = "noDisplay" => ~HasBit(_displaycontrol, 4)
    /\ call.op \in {"display", "noDisplay"} => _displaycontrol % 4 = pre.ctl % 4
    /\ (call.op = "display" /\ HasBit(pre.ctl, 4)) => _displaycontrol = pre.ctl
    /\ (call.op = "noDisplay" /\ ~HasBit(pre.ctl, 4)) => _displaycontrol = pre.ctl

\* blink() some time after noDisplay(), the cursor being on: display bit still clear
C10_Witness ==
    /\ dispChoice = "noDisplay"
    /\ call.op = "blink"
    /\ _displaycontrol = 3

\* ------------------------------------------------------------------------
\* C11: backlight() and noBacklight() set the shadow bit and make exactly one
\* expander write, all of whose bits but the backlight bit are zero (so no
\* enable pulse), leaving the three flag registers alone; getBacklight()
\* returns true iff the most recent of the two was backlight(), or neither
\* was called.
\* ------------------------------------------------------------------------
C11_BacklightCallsWriteOnlyTheBit ==
    /\ call.op = "backlight" =>
          /\ _backlightval = 8 /\ wire = <<8>>
          /\ Now = [pre EXCEPT !.bl = 8]
    /\ call.op = "noBacklight" =>
          /\ _backlightval = 0 /\ wire = <<0>>
          /\ Now = [pre EXCEPT !.bl = 0]
    /\ call.op \in {"backlight", "noBacklight"} => Pulses(wire) = <<>>
    /\ call.op = "getBacklight" =>
          /\ ret = <<blChoice>>
          /\ wire = <<>>
          /\ Now = pre

\* noBacklight() on a lit display, the cursor being on
C11_Witness ==
    /\ call.op = "noBacklight"
    /\ pre.bl = 8 /\ pre.ctl = 6
    /\ wire = <<0>>

\* ------------------------------------------------------------------------
\* C12: begin() writes, in this order and nothing else: one byte carrying the
\* backlight bit only; the single nibbles 0x30, 0x30, 0x30, 0x20; the
\* commands Function-Set, Display-Control, Clear-Display, Entry-Mode-Set,
\* Return-Home.
\* ------------------------------------------------------------------------
C12_BeginOrder ==
    call.op \in {"begin", "init"} =>
        /\ Len(wire) = 1 + 4 * 3 + 5 * 6
        /\ wire[1] = _backlightval
        /\ Len(Pulses(SubSeq(wire, 2, 13))) = 4
        /\ Len(Nibbles(wire)) = 14
        /\ SubSeq(Nibbles(wire), 1, 4) = <<48, 48, 48, 32>>
        /\ Len(BeginFrames) = 5
        /\ \A k \in 1..5 : BeginFrames[k].rs = 0
        /\ BeginFrames[1].value \in 32..63
        /\ BeginFrames[2].value \in 8..15
        /\ BeginFrames[3].value = 1
        /\ BeginFrames[4].value \in 4..7
        /\ BeginFrames[5].value = 2

\* begin() with the backlight off
C12_Witness ==
    /\ call.op = "begin"
    /\ ~blChoice
    /\ wire[1] = 0
    /\ Len(BeginFrames) = 5

\* ------------------------------------------------------------------------
\* C13: every nibble transmission is three expander writes: b with En clear,
\* b with En set, b with En clear again; write() and command() are six.
\* (begin() first writes one byte, backlight()/noBacklight() only one.)
\* ------------------------------------------------------------------------
C13_NibbleWrites ==
    CASE call.op \in {"begin", "init"} -> SubSeq(wire, 2, Len(wire))
      [] call.op \in {"backlight", "noBacklight"} -> <<>>
      [] OTHER -> wire

C13_ThreeWritesPerNibble ==
    LET w == C13_NibbleWrites
    IN  /\ Len(w) % 3 = 0
        /\ \A k \in 0..((Len(w) \div 3) - 1) :
              /\ ~EnHigh(w[3 * k + 1])
              /\ w[3 * k + 2] = w[3 * k + 1] + 4
              /\ w[3 * k + 3] = w[3 * k + 1]
        /\ call.op \in {"write", "command"} => Len(w) = 6

\* write(0x92) with the backlight on: 0x99, 0x9D, 0x99, 0x29, 0x2D, 0x29
C13_Witness ==
    /\ call.op = "write"
    /\ wire = <<153, 157, 153, 41, 45, 41>>

\* ------------------------------------------------------------------------
\* C14: a flag operation changes its one bit of its one register and nothing
\* else; clear, home, setCursor, write, command, createChar and the two
\* scroll operations change no shadow value; only begin() changes the
\* function register.
\* ------------------------------------------------------------------------
C14_ControlOps == {"display", "noDisplay", "cursor", "noCursor", "blink", "noBlink"}

C14_ModeOps == {"leftToRight", "rightToLeft", "autoscroll", "noAutoscroll"}

C14_FrameOfEachOperation ==
    /\ call.op \in C14_ControlOps => Now = [pre EXCEPT !.ctl = C2_ControlAfter]
    /\ call.op \in C14_ModeOps => Now = [pre EXCEPT !.mode = C2_ModeAfter]
    /\ call.op \in {"clear", "home", "setCursor", "write", "command", "createChar",
                    "scrollDisplayLeft", "scrollDisplayRight"} => Now = pre
    /\ call.op \notin {"begin", "init"} => _displayfunction = pre.fn

\* noBlink() with cursor and blink on, after begin() on a two-row display
C14_Witness ==
    /\ call.op = "noBlink"
    /\ pre = [fn |-> 8, ctl |-> 7, mode |-> 2, bl |-> 8]
    /\ Now = [fn |-> 8, ctl |-> 6, mode |-> 2, bl |-> 8]

\* ------------------------------------------------------------------------
\* C17: with rows in 1..4, the index setCursor uses to read the four-entry
\* row_offsets table is within 0..3.
\* ------------------------------------------------------------------------
C17_IndexInsideTable ==
    (call.op = "setCursor" /\ _rows \in 1..4) => rowidx \in 0..3

\* ------------------------------------------------------------------------
\* C19: no byte written to the expander has the Rw bit (0x02) set, and the
\* last byte an operation writes has the En bit (0x04) clear.
\* ------------------------------------------------------------------------
C19_NeverReadsNeverLeavesEnHigh ==
    /\ \A i \in 1..Len(wire) : ~HasBit(wire[i], 2)
    /\ Len(wire) > 0 => ~EnHigh(wire[Len(wire)])

\* setCursor whose offset was read past the table, value 0xFFFF: 0x80 | (0xC9 + 0xFFFF)
C19_Witness ==
    /\ call.op = "setCursor"
    /\ rowidx = 4
    /\ call.a = 201
    /\ Frames(wire) = <<Cmd(200)>>

\* ------------------------------------------------------------------------
\* C16: from begin() on, as long as command() is not called, the last
\* Display-Control command the controller was given is 0x08 | control register
\* and the last Entry-Mode-Set command is 0x04 | entry-mode register.
\* ------------------------------------------------------------------------
C16_ControllerMatchesShadow ==
    (probe /\ since = "begun") =>
        /\ hwControl = 8 + _displaycontrol
        /\ hwMode = 4 + _displaymode

\* ------------------------------------------------------------------------
\* C18: every operation makes an even number of nibble transmissions, so the
\* controller has always latched an even number when an operation returns,
\* and what send() transmits is latched as a high nibble and its low nibble.
\* ------------------------------------------------------------------------
C18_EvenNumberOfNibbles ==
    /\ Len(Pulses(wire)) % 2 = 0
    /\ hwPhase = 0
    /\ \A k \in 1..Len(OpFrames(call.op, wire)) : OpFrames(call.op, wire)[k].rs \in {0, 1}

\* begin() (14 nibbles) after a createChar() (18 nibbles)
C18_Witness ==
    /\ call.op = "begin"
    /\ Len(Pulses(wire)) = 14
    /\ pre.fn # _displayfunction
    /\ hwPhase = 0

\* ------------------------------------------------------------------------
\* C15: with two callers that exclude each other for a whole operation, the
\* nibbles the controller latches (the byte on the lines when En falls) are
\* each operation's own nibbles, one operation after the other; without the
\* exclusion the latched nibbles can be those of neither order (C15_Witness).
\* ------------------------------------------------------------------------
\* the bytes with En high that the next byte takes En low on, without En and backlight
Latched(b) ==
    LET F[k \in 0..Len(b)] ==
            IF k < 2 THEN <<>>
            ELSE IF EnHigh(b[k - 1]) /\ ~EnHigh(b[k])
                 THEN Append(F[k - 1], ClearBit(ClearBit(b[k - 1], 4), 8))
                 ELSE F[k - 1]
    IN  F[Len(b)]

\* the high and the low nibble of value, each with the mode bits
TwoNibbles(value, mode) ==
    <<(value - (value % 16)) + mode, ((value % 16) * 16) + mode>>

\* the nibbles an operation is to hand to the controller
JobNibbles(j) ==
    CASE j.op = "write" -> TwoNibbles(j.a, Pin_Rs)
      [] j.op = "command" -> TwoNibbles(j.a, 0)
      [] j.op = "clear" -> TwoNibbles(Command_ClearDisplay, 0)
      [] j.op = "home" -> TwoNibbles(Command_ReturnHome, 0)

\* the nibbles of the operations of the callers in o, one operation after the other
InOrder(o) ==
    LET F[k \in 0..Len(o)] == IF k = 0 THEN <<>> ELSE F[k - 1] \o JobNibbles(rJob[o[k]])
    IN  F[Len(o)]

RaceQuiet == rJob # <<>> /\ \A t \in Threads : ~Inside(t)

RaceOver == rJob # <<>> /\ \A t \in Threads : rPc[t] = Len(Program(rJob[t]))

C15_ExclusionKeepsTheStream ==
    (rLocking /\ RaceQuiet) => Latched(bus) = InOrder(rOrder)

\* no exclusion, both operations returned, and the controller latched the
\* nibbles of neither order
C15_Witness ==
    /\ RaceOver
    /\ ~rLocking
    /\ rJob[1] # rJob[2]
    /\ Latched(bus) \notin {InOrder(<<1, 2>>), InOrder(<<2, 1>>)}

====
